---- MODULE Spec2Model ----
(***************************************************************************)
(* Model of wolfram/client.py: the blocking Client and the non-blocking    *)
(* AsyncClient, their low-level query operation and their facade methods.  *)
(*                                                                         *)
(* Python values are records [t, v, items]: a str, None, or a list of str. *)
(* A keyword-argument dict is a sequence of <<key, value>> pairs in        *)
(* insertion order.  Text (keys, URLs, query strings) is a TLA+ string, so *)
(* that percent-encoding and concatenation are computed, not assumed.      *)
(***************************************************************************)
EXTENDS Integers, Sequences, FiniteSets, TLC

VARIABLES call, sync, async, tasks, open, nextSession

vars == <<call, sync, async, tasks, open, nextSession>>

(***************************************************************************)
(* Bounds of the model.                                                    *)
(***************************************************************************)
\* longest caller keyword-argument dict drawn as an input
MaxParams == 2
\* API versions a descriptor may declare are 1..MaxVersion
MaxVersion == 3
\* number of concurrent non-blocking calls
NTasks == 2

(***************************************************************************)
(* Python values.                                                          *)
(***************************************************************************)
None == [t |-> "none", v |-> "", items |-> <<>>]
Str(s) == [t |-> "str", v |-> s, items |-> <<>>]
List(xs) == [t |-> "list", v |-> "", items |-> xs]

\* F applied to the value of x, x being evaluated once
With(x, F(_)) == CHOOSE r \in {F(v) : v \in {x}} : TRUE

RECURSIVE JoinFrom(_, _, _)
JoinFrom(sep, xs, n) ==
  IF n > Len(xs) THEN ""
  ELSE IF n = Len(xs) THEN xs[n]
  ELSE xs[n] \o sep \o JoinFrom(sep, xs, n + 1)

\* sep.join(xs)
Join(sep, xs) == JoinFrom(sep, xs, 1)

ReprItems(xs) == [n \in DOMAIN xs |-> "'" \o xs[n] \o "'"]

\* str(v), as urlencode applies it to every key and value
PyStr(x) ==
  CASE x.t = "str" -> x.v
    [] x.t = "none" -> "None"
    [] x.t = "list" -> "[" \o Join(", ", ReprItems(x.items)) \o "]"

(***************************************************************************)
(* urllib.parse.urlencode with its default quote_via = quote_plus.         *)
(***************************************************************************)
AlwaysSafe ==
  {"a","b","c","d","e","f","g","h","i","j","k","l","m","n","o","p","q","r",
   "s","t","u","v","w","x","y","z",
   "A","B","C","D","E","F","G","H","I","J","K","L","M","N","O","P","Q","R",
   "S","T","U","V","W","X","Y","Z",
   "0","1","2","3","4","5","6","7","8","9","_",".","-","~"}

PercentCode ==
  ("+" :> "%2B") @@ ("," :> "%2C") @@ ("/" :> "%2F") @@ (":" :> "%3A") @@
  ("=" :> "%3D") @@ ("&" :> "%26") @@ ("?" :> "%3F") @@ ("'" :> "%27") @@
  ("[" :> "%5B") @@ ("]" :> "%5D") @@ ("%" :> "%25")

QuoteChar(c) ==
  IF c \in AlwaysSafe THEN c
  ELSE IF c = " " THEN "+"
  ELSE PercentCode[c]

RECURSIVE QuoteFrom(_, _)
QuoteFrom(s, n) ==
  IF n > Len(s) THEN "" ELSE QuoteChar(SubSeq(s, n, n)) \o QuoteFrom(s, n + 1)

quote_plus(s) == QuoteFrom(s, 1)

EncodePairs(items) ==
  [n \in DOMAIN items |->
     quote_plus(items[n][1]) \o "=" \o quote_plus(PyStr(items[n][2]))]

urlencode(items) == With(EncodePairs(items), LAMBDA parts : Join("&", parts))

(***************************************************************************)
(* Keyword-argument dicts.                                                 *)
(***************************************************************************)
Keys(d) == {d[n][1] : n \in DOMAIN d}
KeyList(d) == [n \in DOMAIN d |-> d[n][1]]
HasKey(d, k) == \E n \in DOMAIN d : d[n][1] = k
Get(d, k) == d[CHOOSE n \in DOMAIN d : d[n][1] = k][2]
NoDup(ks) == \A m, n \in DOMAIN ks : ks[m] = ks[n] => m = n

RECURSIVE Without(_, _)
\* the dict without key k (dict.pop's effect on the dict)
Without(d, k) ==
  IF d = <<>> THEN <<>>
  ELSE IF d[1][1] = k THEN Without(Tail(d), k)
  ELSE <<d[1]>> \o Without(Tail(d), k)

(***************************************************************************)
(* ClientBase: class constants and the credential.                         *)
(***************************************************************************)
BASE_URL == "https://api.wolframalpha.com/"

API_VERSION == (1 :> "v1/") @@ (2 :> "v2/")

\* names bound at module level of client.py, and the locals of query()
ModuleGlobals ==
  {"annotations", "JSONDecodeError", "urlencode", "TYPE_CHECKING", "Dict",
   "Literal", "Optional", "Sequence", "Tuple", "Union", "overload", "API",
   "FullResultsAPI", "SimpleAPI", "ShortAPI", "SpokenAPI",
   "ConversationalAPI", "ParameterConflict", "aiohttp", "requests",
   "ClientBase", "Client", "AsyncClient"}

QueryLocals == {"self", "api", "url", "params", "api_version"}

(***************************************************************************)
(* Objects a caller may pass as `api`.  kind is what the object is to      *)
(* Python: a class deriving from API, an instance of such a class, a class *)
(* unrelated to API, or an object that is not a class at all.              *)
(***************************************************************************)
ApiClass(name, version, endpoint, fixed) ==
  [kind |-> "APIClass", name |-> name, VERSION |-> version,
   ENDPOINT |-> endpoint, PARAMS |-> fixed]

InstanceOf(cls) == [cls EXCEPT !.kind = "APIInstance"]

OtherClass ==
  [kind |-> "OtherClass", name |-> "dict", VERSION |-> 0, ENDPOINT |-> "",
   PARAMS |-> <<>>]

PlainObject ==
  [kind |-> "Object", name |-> "short", VERSION |-> 0, ENDPOINT |-> "",
   PARAMS |-> <<>>]

\* the descriptors client.py imports from wolfram.api
FullResultsAPI == ApiClass("FullResultsAPI", 2, "query", <<<<"output", Str("json")>>>>)
SimpleAPI == ApiClass("SimpleAPI", 1, "simple", <<>>)
ShortAPI == ApiClass("ShortAPI", 1, "result", <<>>)
SpokenAPI == ApiClass("SpokenAPI", 1, "spoken", <<>>)
ConversationalAPI == ApiClass("ConversationalAPI", 1, "conversation.jsp", <<>>)

\* api.format_results(resp) / await api.async_format_results(resp)
NoResult == [endpoint |-> "", body |-> ""]
format_results(api, body) ==
  IF body = "malformed" THEN [ok |-> FALSE, value |-> NoResult]
  ELSE [ok |-> TRUE, value |-> [endpoint |-> api.ENDPOINT, body |-> body]]
async_format_results(api, body) ==
  IF body = "malformed" THEN [ok |-> FALSE, value |-> NoResult]
  ELSE [ok |-> TRUE, value |-> [endpoint |-> api.ENDPOINT, body |-> body]]

(***************************************************************************)
(* The record of one call: how far it got and what it produced.            *)
(*   pc       "idle" before the call, "done" after it returned or raised   *)
(*   raised   the exception that left the call ("" when it returned)       *)
(*   at       the source line that raised                                  *)
(*   steps    the steps performed, in order                                *)
(*   merged   the dict built at the merge step                             *)
(*   requests the URLs for which a GET was issued                          *)
(*   session  the ClientSession the call acquired (0: none)                *)
(*   resp     "none", "open" or "released"                                 *)
(***************************************************************************)
NotRun ==
  [pc |-> "idle", raised |-> "", at |-> 0, steps |-> <<>>, merged |-> <<>>,
   url |-> "", requests |-> <<>>, result |-> NoResult, session |-> 0,
   resp |-> "none"]

Step(o, name) == [o EXCEPT !.steps = @ \o <<name>>]
Raise(o, exc, line) == [o EXCEPT !.pc = "done", !.raised = exc, !.at = line]
Return(o, value) == [o EXCEPT !.pc = "done", !.result = value]

(***************************************************************************)
(* The steps Client.query and AsyncClient.query share (lines 47-62 and     *)
(* 239-254 are the same text).                                             *)
(***************************************************************************)
\* issubclass(api, API): "True", "False", or a TypeError of its own when api
\* is not a class
issubclass_API(api) ==
  CASE api.kind = "APIClass" -> "True"
    [] api.kind = "OtherClass" -> "False"
    [] OTHER -> "TypeError"

\* a check that lets every object through
isinstance_API_Any(api) == TRUE

\* isinstance(api, API)
isinstance_API(api) == api.kind = "APIInstance"

\* what `raise ValueError(f"Unknown API version '{request.version}'.")` raises:
\* the f-string is evaluated first and reads the name `request`
UnknownVersionRaises ==
  IF "request" \in ModuleGlobals \cup QueryLocals THEN "ValueError" ELSE "NameError"

\* a merge in which a later keyword silently replaces an earlier one, as
\* {"appid": ..., **api.PARAMS, **params} would
dict_merge_Overwrite(appid, fixed, params) ==
  LET all == <<<<"appid", Str(appid)>>>> \o fixed \o params
      first == {n \in DOMAIN all : \A m \in 1..(n - 1) : all[m][1] # all[n][1]}
      last(k) == CHOOSE n \in DOMAIN all :
                   all[n][1] = k /\ \A m \in (n + 1)..Len(all) : all[m][1] # k
      pick[n \in 0..Len(all)] ==
        IF n = 0 THEN <<>>
        ELSE IF n \in first
             THEN pick[n - 1] \o <<<<all[n][1], all[last(all[n][1])][2]>>>>
             ELSE pick[n - 1]
  IN [ok |-> TRUE, items |-> pick[Len(all)]]

\* a merge that leaves the credential out
dict_merge_NoCredential(appid, fixed, params) ==
  LET items == fixed \o params
  IN IF NoDup(KeyList(items)) THEN [ok |-> TRUE, items |-> items]
     ELSE [ok |-> FALSE, items |-> <<>>]

\* dict(appid=self.appid, **api.PARAMS, **params): a repeated keyword is a
\* TypeError
dict_merge(appid, fixed, params) ==
  LET items == <<<<"appid", Str(appid)>>>> \o fixed \o params
  IN IF NoDup(KeyList(items)) THEN [ok |-> TRUE, items |-> items]
     ELSE [ok |-> FALSE, items |-> <<>>]

\* params = "?" + urlencode(tuple(dict(...).items()))
query_string(items) == "?" \o urlencode(items)

\* a base URL that ignores the override
base_url_Default(url) == BASE_URL

\* base_url = url if url is not None else self.BASE_URL
base_url(url) == IF url # None THEN PyStr(url) ELSE BASE_URL

\* a URL with the endpoint path before the version path
build_url_EndpointFirst(url, api, qs) ==
  (IF url # None THEN PyStr(url) ELSE BASE_URL)
    \o api.ENDPOINT \o API_VERSION[api.VERSION] \o qs

\* url = base_url + api_version + api.ENDPOINT + params
build_url(url, api, qs) ==
  base_url(url) \o API_VERSION[api.VERSION] \o api.ENDPOINT \o qs

\* lines 47-62 / 239-254, from the version lookup to the built URL
Prepare(o, appid, api, url, params, lineOff) ==
  LET o2 == Step(o, "version") IN
  IF api.VERSION \notin DOMAIN API_VERSION
  THEN Raise(o2, UnknownVersionRaises, 48 + lineOff)
  ELSE
    LET o3 == Step(o2, "merge")
    IN With(dict_merge(appid, api.PARAMS, params),
            LAMBDA m :
              IF ~m.ok THEN Raise(o3, "ParameterConflict", 59 + lineOff)
              ELSE [Step(o3, "build") EXCEPT
                      !.merged = m.items,
                      !.url = build_url(url, api, query_string(m.items))])

(***************************************************************************)
(* Client.query (blocking).                                                *)
(***************************************************************************)
\* resp = requests.get(url); return api.format_results(resp)
Client_get_and_format(o, api, env) ==
  LET o5 == [Step(o, "get") EXCEPT !.requests = @ \o <<o.url>>] IN
  IF env.transport = "fail" THEN Raise(o5, "TransportFailure", 63)
  ELSE
    LET o6 == Step([o5 EXCEPT !.resp = "open"], "format")
        r == format_results(api, env.body)
    IN IF r.ok THEN Return(o6, r.value) ELSE Raise(o6, "FormatFailure", 64)

Client_query(appid, api, url, params, env) ==
  LET o1 == Step([NotRun EXCEPT !.pc = "running"], "check")
      c == issubclass_API(api)
  IN IF c = "TypeError" THEN Raise(o1, "TypeError", 43)
     ELSE IF c = "False" THEN Raise(o1, "TypeError", 44)
     ELSE
       With(Prepare(o1, appid, api, url, params, 0),
            LAMBDA o4 : IF o4.pc = "done" THEN o4 ELSE Client_get_and_format(o4, api, env))

(***************************************************************************)
(* AsyncClient.query (non-blocking), one step at a time.  The coroutine    *)
(* runs lines 235-254 without suspending, then enters the two `async with` *)
(* blocks; each of them is left through its __aexit__ on every path.       *)
(***************************************************************************)
\* lines 235-254: the descriptor check and the shared preparation
AsyncClient_start(o, appid, api, url, params) ==
  LET o1 == Step([o EXCEPT !.pc = "running"], "check") IN
  IF ~isinstance_API(api) THEN Raise(o1, "TypeError", 236)
  ELSE
    With(Prepare(o1, appid, api, url, params, 192),
         LAMBDA o4 : IF o4.pc = "done" THEN o4 ELSE [o4 EXCEPT !.pc = "session"])

\* line 255: async with aiohttp.ClientSession() as client
AsyncClient_open_session(o, fresh) ==
  [Step(o, "open_session") EXCEPT !.session = fresh, !.pc = "get"]

\* line 256: client.get(url) is sent and awaited
AsyncClient_get(o) ==
  [Step(o, "get") EXCEPT !.requests = @ \o <<o.url>>, !.pc = "wait"]

\* line 256: the awaited GET ends, with a response or with a transport error
AsyncClient_response(o, env) ==
  IF env.transport = "fail"
  THEN [o EXCEPT !.raised = "TransportFailure", !.at = 256, !.pc = "close_session"]
  ELSE [o EXCEPT !.resp = "open", !.pc = "format"]

\* a formatter call outside the `async with` blocks: its exception leaves the
\* coroutine without passing through either __aexit__
AsyncClient_format_NoCleanup(o, api, env) ==
  LET r == async_format_results(api, env.body)
      o6 == Step(o, "format")
  IN IF r.ok THEN [o6 EXCEPT !.result = r.value, !.pc = "release"]
     ELSE [o6 EXCEPT !.raised = "FormatFailure", !.at = 257, !.pc = "done"]

\* line 257: result = await api.async_format_results(resp)
AsyncClient_format(o, api, env) ==
  LET r == async_format_results(api, env.body)
      o6 == Step(o, "format")
  IN IF r.ok THEN [o6 EXCEPT !.result = r.value, !.pc = "release"]
     ELSE [o6 EXCEPT !.raised = "FormatFailure", !.at = 257, !.pc = "release"]

\* line 256: __aexit__ of the response context
AsyncClient_release(o) ==
  [Step(o, "release") EXCEPT !.resp = "released", !.pc = "close_session"]

\* line 255: __aexit__ of the session context; line 258 or the exception
AsyncClient_close_session(o) ==
  [Step(o, "close_session") EXCEPT !.pc = "done"]

\* one step of the coroutine from wherever it stands
AsyncClient_step(o, in, fresh) ==
  CASE o.pc = "idle" -> AsyncClient_start(o, in.appid, in.api, in.url, in.params)
    [] o.pc = "session" -> AsyncClient_open_session(o, fresh)
    [] o.pc = "get" -> AsyncClient_get(o)
    [] o.pc = "wait" -> AsyncClient_response(o, in.env)
    [] o.pc = "format" -> AsyncClient_format(o, in.api, in.env)
    [] o.pc = "release" -> AsyncClient_release(o)
    [] o.pc = "close_session" -> AsyncClient_close_session(o)

RECURSIVE AsyncClient_run(_, _, _)
AsyncClient_run(o, in, fresh) ==
  IF o.pc = "done" THEN o
  ELSE With(AsyncClient_step(o, in, fresh), LAMBDA o2 : AsyncClient_run(o2, in, fresh))

\* await self.query(...) run to completion by the event loop
AsyncClient_query(appid, api, url, params, env) ==
  AsyncClient_run(NotRun,
    [appid |-> appid, api |-> api, url |-> url, params |-> params, env |-> env], 1)

(***************************************************************************)
(* Facade methods.  Each calls self.query(api=..., <named>, **params):     *)
(* Python binds a keyword named `url` to query's url parameter, and a      *)
(* keyword given twice is a TypeError at the call.                         *)
(***************************************************************************)
RaisedAtCall(line) ==
  [NotRun EXCEPT !.pc = "done", !.raised = "TypeError", !.at = line]

BoundUrl(kwargs) == IF HasKey(kwargs, "url") THEN Get(kwargs, "url") ELSE None

Client_call_query(appid, api, kwargs, env, line) ==
  IF ~NoDup(<<"self", "api">> \o KeyList(kwargs)) THEN RaisedAtCall(line)
  ELSE Client_query(appid, api, BoundUrl(kwargs), Without(kwargs, "url"), env)

AsyncClient_call_query(appid, api, kwargs, env, line) ==
  IF ~NoDup(<<"self", "api">> \o KeyList(kwargs)) THEN RaisedAtCall(line)
  ELSE AsyncClient_query(appid, api, BoundUrl(kwargs), Without(kwargs, "url"), env)

\* a full-results call that hands the format sequence on as it came
full_results_kwargs_Unjoined(input, params) ==
  <<<<"input", Str(input)>>>> \o params

\* format = params.pop("format", None); ",".join(format) when it is not None
full_results_kwargs(input, params) ==
  LET format == IF HasKey(params, "format") THEN Get(params, "format") ELSE None
      rest == Without(params, "format")
      \* iterating a list yields its items, iterating a str its characters
      elems == IF format.t = "str"
               THEN [n \in 1..Len(format.v) |-> SubSeq(format.v, n, n)]
               ELSE format.items
  IN IF format # None
     THEN <<<<"input", Str(input)>>, <<"format", Str(Join(",", elems))>>>> \o rest
     ELSE <<<<"input", Str(input)>>>> \o rest

\* self.conversational_query(i=i, url=result.followup_url,
\*                           **result.followup_params, **params)
followup_kwargs(i, result, params) ==
  <<<<"i", Str(i)>>, <<"url", result.followup_url>>>> \o result.followup_params \o params

Client_full_results_query(appid, input, params, env) ==
  Client_call_query(appid, FullResultsAPI, full_results_kwargs(input, params), env,
                    IF HasKey(params, "format") /\ Get(params, "format") # None
                    THEN 138 ELSE 140)

Client_conversational_query(appid, i, params, env) ==
  Client_call_query(appid, ConversationalAPI, <<<<"i", Str(i)>>>> \o params, env, 168)

Client_conversational_followup_query(appid, i, result, params, env) ==
  LET kw == followup_kwargs(i, result, params) IN
  IF ~NoDup(KeyList(kw)) THEN RaisedAtCall(183)
  ELSE Client_conversational_query(appid, i, Tail(kw), env)

Client_simple_query(appid, i, params, env) ==
  Client_call_query(appid, SimpleAPI, <<<<"i", Str(i)>>>> \o params, env, 201)

Client_short_query(appid, i, params, env) ==
  Client_call_query(appid, ShortAPI, <<<<"i", Str(i)>>>> \o params, env, 214)

Client_spoken_query(appid, i, params, env) ==
  Client_call_query(appid, SpokenAPI, <<<<"i", Str(i)>>>> \o params, env, 227)

AsyncClient_full_results_query(appid, input, params, env) ==
  AsyncClient_call_query(appid, FullResultsAPI, full_results_kwargs(input, params), env,
                         IF HasKey(params, "format") /\ Get(params, "format") # None
                         THEN 332 ELSE 334)

AsyncClient_conversational_query(appid, i, params, env) ==
  AsyncClient_call_query(appid, ConversationalAPI, <<<<"i", Str(i)>>>> \o params, env, 362)

AsyncClient_conversational_followup_query(appid, i, result, params, env) ==
  LET kw == followup_kwargs(i, result, params) IN
  IF ~NoDup(KeyList(kw)) THEN RaisedAtCall(377)
  ELSE AsyncClient_conversational_query(appid, i, Tail(kw), env)

AsyncClient_simple_query(appid, i, params, env) ==
  AsyncClient_call_query(appid, SimpleAPI, <<<<"i", Str(i)>>>> \o params, env, 395)

AsyncClient_short_query(appid, i, params, env) ==
  AsyncClient_call_query(appid, ShortAPI, <<<<"i", Str(i)>>>> \o params, env, 408)

AsyncClient_spoken_query(appid, i, params, env) ==
  AsyncClient_call_query(appid, SpokenAPI, <<<<"i", Str(i)>>>> \o params, env, 421)

(***************************************************************************)
(* Inputs.                                                                 *)
(***************************************************************************)
Credentials == {"DEMO-KEY"}

\* what the network and the response body do to a call
Envs ==
  {[transport |-> "ok", body |-> "good"],
   [transport |-> "ok", body |-> "malformed"],
   [transport |-> "fail", body |-> ""]}

FixedParamSets ==
  {<<>>,
   <<<<"output", Str("json")>>>>,
   <<<<"output", Str("json")>>, <<"units", Str("metric")>>>>}

TestDescriptors ==
  {ApiClass("TestAPI", v, "simple", f) : v \in 1..MaxVersion, f \in FixedParamSets}

Descriptors == TestDescriptors \cup {FullResultsAPI, ShortAPI}

ApiObjects ==
  Descriptors \cup {InstanceOf(d) : d \in Descriptors} \cup {OtherClass, PlainObject}

ValuesFor(k) ==
  CASE k = "i" -> {Str("2+2")}
    [] k = "units" -> {Str("metric"), None}
    [] k = "output" -> {Str("xml")}
    [] k = "appid" -> {Str("OTHER")}
    [] k = "timeout" -> {Str("5"), None}
    [] k = "s" -> {Str("2")}
    [] k = "url" -> {Str("https://x/")}
    [] k = "format" -> {List(<<"plaintext", "image">>), List(<<"image">>), None}

PairsOver(keys) == {<<k, v>> : k \in keys, v \in UNION {ValuesFor(k2) : k2 \in keys}}

\* the keyword-argument dicts over keys: at most MaxParams entries, no key twice
Dicts(keys) ==
  {d \in UNION {[1..n -> {p \in PairsOver(keys) : p[2] \in ValuesFor(p[1])}] :
                  n \in 0..MaxParams} : NoDup(KeyList(d))}

QueryKeys == {"i", "units", "output", "appid"}
FacadeKeys == {"units", "timeout", "url"}
FullResultsKeys == {"format", "units", "output"}
FollowupKeys == {"units", "s"}

Urls == {None, Str("https://x/")}
Inputs == {"2+2"}

NoPrior == [followup_url |-> None, followup_params |-> <<>>]

\* earlier ConversationalResults: their followup_url and followup_params
Priors ==
  {[followup_url |-> Str(u), followup_params |-> k] :
     u \in {"https://x/v1/conversation.jsp", "https://www4b.wolframalpha.com/api/"},
     k \in {<<<<"s", Str("1")>>>>,
            <<<<"conversationID", Str("c7")>>, <<"s", Str("1")>>>>}}

FacadeApi(method) ==
  CASE method = "full_results_query" -> FullResultsAPI
    [] method = "conversational_query" -> ConversationalAPI
    [] method = "conversational_followup_query" -> ConversationalAPI
    [] method = "simple_query" -> SimpleAPI
    [] method = "short_query" -> ShortAPI
    [] method = "spoken_query" -> SpokenAPI

FacadeKeysOf(method) ==
  CASE method = "full_results_query" -> FullResultsKeys
    [] method = "conversational_followup_query" -> FollowupKeys
    [] OTHER -> FacadeKeys

Facades ==
  {"full_results_query", "conversational_query", "conversational_followup_query",
   "simple_query", "short_query", "spoken_query"}

\* a call of the low-level query: api, url and **params are the caller's
QueryCalls ==
  {[method |-> "query", appid |-> a, api |-> d, url |-> u, params |-> p,
    i |-> "", prior |-> NoPrior, env |-> e] :
     a \in Credentials, d \in ApiObjects, u \in Urls, p \in Dicts(QueryKeys),
     e \in Envs}

\* a call of a facade method: i (or input), **params and, for the follow-up,
\* the earlier result are the caller's; api is the descriptor the method names
FacadeCalls ==
  UNION {
    {[method |-> m, appid |-> a, api |-> FacadeApi(m), url |-> None, params |-> p,
      i |-> x, prior |-> r, env |-> e] :
       a \in Credentials, p \in Dicts(FacadeKeysOf(m)), x \in Inputs,
       r \in IF m = "conversational_followup_query" THEN Priors ELSE {NoPrior},
       e \in Envs} : m \in Facades}

Calls == QueryCalls \cup FacadeCalls

\* the concurrent non-blocking calls
TaskInputs ==
  {[appid |-> "DEMO-KEY", api |-> d, url |-> None,
    params |-> <<<<"i", Str("2+2")>>>>, env |-> e] :
     d \in {InstanceOf(ShortAPI)}, e \in Envs}
  \cup
  {[appid |-> "DEMO-KEY", api |-> ShortAPI, url |-> None,
    params |-> <<<<"i", Str("2+2")>>>>, env |-> [transport |-> "ok", body |-> "good"]]}

IdleTask ==
  [in |-> [appid |-> "DEMO-KEY", api |-> ShortAPI, url |-> None,
           params |-> <<<<"i", Str("2+2")>>>>,
           env |-> [transport |-> "ok", body |-> "good"]],
   o |-> NotRun]

(***************************************************************************)
(* One call, run by the blocking client, by the non-blocking client, or by *)
(* both side by side.                                                      *)
(***************************************************************************)
Init ==
  /\ call \in Calls
  /\ sync = NotRun
  /\ async = NotRun
  /\ tasks = [c \in 1..NTasks |-> IdleTask]
  /\ open = {}
  /\ nextSession = 1

Blocking(method, outcome) ==
  /\ call.method = method
  /\ sync.pc = "idle"
  /\ sync' = outcome
  /\ UNCHANGED <<call, async, tasks, open, nextSession>>

NonBlocking(method, outcome) ==
  /\ call.method = method
  /\ async.pc = "idle"
  /\ async' = outcome
  /\ UNCHANGED <<call, sync, tasks, open, nextSession>>

Call_Client_query ==
  Blocking("query", Client_query(call.appid, call.api, call.url, call.params, call.env))

Call_Client_full_results_query ==
  Blocking("full_results_query",
           Client_full_results_query(call.appid, call.i, call.params, call.env))

Call_Client_conversational_query ==
  Blocking("conversational_query",
           Client_conversational_query(call.appid, call.i, call.params, call.env))

Call_Client_conversational_followup_query ==
  Blocking("conversational_followup_query",
           Client_conversational_followup_query(call.appid, call.i, call.prior,
                                                call.params, call.env))

Call_Client_simple_query ==
  Blocking("simple_query", Client_simple_query(call.appid, call.i, call.params, call.env))

Call_Client_short_query ==
  Blocking("short_query", Client_short_query(call.appid, call.i, call.params, call.env))

Call_Client_spoken_query ==
  Blocking("spoken_query", Client_spoken_query(call.appid, call.i, call.params, call.env))

Call_AsyncClient_query ==
  NonBlocking("query",
              AsyncClient_query(call.appid, call.api, call.url, call.params, call.env))

Call_AsyncClient_full_results_query ==
  NonBlocking("full_results_query",
              AsyncClient_full_results_query(call.appid, call.i, call.params, call.env))

Call_AsyncClient_conversational_query ==
  NonBlocking("conversational_query",
              AsyncClient_conversational_query(call.appid, call.i, call.params, call.env))

Call_AsyncClient_conversational_followup_query ==
  NonBlocking("conversational_followup_query",
              AsyncClient_conversational_followup_query(call.appid, call.i, call.prior,
                                                        call.params, call.env))

Call_AsyncClient_simple_query ==
  NonBlocking("simple_query",
              AsyncClient_simple_query(call.appid, call.i, call.params, call.env))

Call_AsyncClient_short_query ==
  NonBlocking("short_query",
              AsyncClient_short_query(call.appid, call.i, call.params, call.env))

Call_AsyncClient_spoken_query ==
  NonBlocking("spoken_query",
              AsyncClient_spoken_query(call.appid, call.i, call.params, call.env))

Next ==
  \/ Call_Client_query
  \/ Call_Client_full_results_query
  \/ Call_Client_conversational_query
  \/ Call_Client_conversational_followup_query
  \/ Call_Client_simple_query
  \/ Call_Client_short_query
  \/ Call_Client_spoken_query
  \/ Call_AsyncClient_query
  \/ Call_AsyncClient_full_results_query
  \/ Call_AsyncClient_conversational_query
  \/ Call_AsyncClient_conversational_followup_query
  \/ Call_AsyncClient_simple_query
  \/ Call_AsyncClient_short_query
  \/ Call_AsyncClient_spoken_query

Spec == Init /\ [][Next]_vars

(***************************************************************************)
(* Concurrent non-blocking calls on one event loop: each task is one       *)
(* AsyncClient.query coroutine, and a step of a task is the code between   *)
(* two of its suspension points.  open is the set of ClientSessions that   *)
(* have been entered and not yet closed.                                   *)
(***************************************************************************)
InitLive ==
  /\ call \in {c \in QueryCalls : c.api = PlainObject /\ c.params = <<>>
                                  /\ c.url = None /\ c.env.body = "good"}
  /\ sync = NotRun
  /\ async = NotRun
  /\ tasks \in [1..NTasks -> {[in |-> x, o |-> NotRun] : x \in TaskInputs}]
  /\ open = {}
  /\ nextSession = 1

RECURSIVE AsyncClient_resume(_, _, _, _)
\* the coroutine runs from where it stands until it next suspends (at one of
\* the program points in suspended) or finishes
AsyncClient_resume(o, in, fresh, suspended) ==
  With(AsyncClient_step(o, in, fresh),
       LAMBDA o2 : IF o2.pc \in suspended \cup {"done"} THEN o2
                   ELSE AsyncClient_resume(o2, in, fresh, suspended))

\* where a coroutine waits for the event loop: for the GET to end, for the
\* formatter's read of the body, for the session to close
SuspensionPoints == {"wait", "format", "close_session"}

TaskStep(c, pc) ==
  /\ tasks[c].o.pc = pc
  /\ \E o2 \in {AsyncClient_resume(tasks[c].o, tasks[c].in, nextSession, SuspensionPoints)} :
       tasks' = [tasks EXCEPT ![c].o = o2]
  /\ UNCHANGED <<call, sync, async>>

\* the call starts: lines 235-256, until the GET has been sent
A_Start(c) ==
  /\ TaskStep(c, "idle")
  /\ open' = IF tasks'[c].o.session # 0 THEN open \cup {tasks'[c].o.session} ELSE open
  /\ nextSession' = IF tasks'[c].o.session # 0 THEN nextSession + 1 ELSE nextSession

\* the GET ends, with a response or a transport error
A_Response(c) == TaskStep(c, "wait") /\ UNCHANGED <<open, nextSession>>

\* the formatter runs and the response context is left
A_Format(c) == TaskStep(c, "format") /\ UNCHANGED <<open, nextSession>>

\* the session context is left and the call returns or raises
A_CloseSession(c) ==
  /\ TaskStep(c, "close_session")
  /\ open' = open \ {tasks[c].o.session}
  /\ UNCHANGED nextSession

TaskNext(c) ==
  \/ A_Start(c)
  \/ A_Response(c)
  \/ A_Format(c)
  \/ A_CloseSession(c)

LiveNext == \E c \in 1..NTasks : TaskNext(c)

\* the event loop resumes every coroutine that can run, and every awaited
\* GET and body read ends (aiohttp's default total timeout bounds them)
LiveSpec ==
  InitLive /\ [][LiveNext]_vars /\ \A c \in 1..NTasks : WF_vars(TaskNext(c))

(***************************************************************************)
(* Vocabulary of the properties.                                           *)
(***************************************************************************)
Variants == {"blocking", "non-blocking"}
Out(v) == IF v = "blocking" THEN sync ELSE async
Finished(v) == Out(v).pc = "done"

\* the object passes the descriptor check of variant v
RecognizedBy(v, api) ==
  IF v = "blocking" THEN api.kind = "APIClass" ELSE api.kind = "APIInstance"

KnownVersion(api) == api.VERSION = 1 \/ api.VERSION = 2
VersionPath(api) == IF api.VERSION = 1 THEN "v1/" ELSE "v2/"

RECURSIVE SplitAt(_, _, _)
SplitAt(s, start, seps) ==
  IF seps = {} THEN <<SubSeq(s, start, Len(s))>>
  ELSE LET n == CHOOSE n \in seps : \A m \in seps : n <= m
       IN <<SubSeq(s, start, n - 1)>> \o SplitAt(s, n + 1, seps \ {n})

\* s cut at every occurrence of the character sep
Split(s, sep) == SplitAt(s, 1, {n \in 1..Len(s) : SubSeq(s, n, n) = sep})

\* a requested URL: what precedes the first "?", and the "&"-separated
\* key=value parts that follow it
AddressOf(u) == Split(u, "?")[1]
QueryOf(u) == SubSeq(u, Len(AddressOf(u)) + 2, Len(u))
QueryParts(u) == IF QueryOf(u) = "" THEN <<>> ELSE Split(QueryOf(u), "&")
PartKey(part) == Split(part, "=")[1]
PartKeys(u) == [n \in DOMAIN QueryParts(u) |-> PartKey(QueryParts(u)[n])]
Range(f) == {f[n] : n \in DOMAIN f}
StartsWith(s, prefix) ==
  Len(s) >= Len(prefix) /\ SubSeq(s, 1, Len(prefix)) = prefix
Part(k, x) == quote_plus(k) \o "=" \o quote_plus(PyStr(x))

SharesKey(p, f) == Keys(p) \cap Keys(f) # {}

C2_NoneKeysAbsent ==
  \A v \in Variants :
    Finished(v) =>
      \A n \in DOMAIN Out(v).requests :
        \A m \in DOMAIN call.params :
          call.params[m][2] = None
            => call.params[m][1] \notin Range(PartKeys(Out(v).requests[n]))

(***************************************************************************)
(* C3.                                                                     *)
(***************************************************************************)
IsFollowup == call.method = "conversational_followup_query"
FollowupU == PyStr(call.prior.followup_url)
FollowupK == call.prior.followup_params

\* the keyword arguments of the follow-up call do not collide
FollowupCallable ==
  /\ ~SharesKey(FollowupK, call.params)
  /\ {"i", "url", "appid"} \cap (Keys(FollowupK) \cup Keys(call.params)) = {}

CarriesFollowupState(u) ==
  /\ \A n \in DOMAIN FollowupK :
       Part(FollowupK[n][1], FollowupK[n][2]) \in Range(QueryParts(u))
  /\ \A n \in DOMAIN call.params :
       Part(call.params[n][1], call.params[n][2]) \in Range(QueryParts(u))
  /\ Part("i", Str(call.i)) \in Range(QueryParts(u))

\* C3 as stated: conversational-followup, given a prior result with
\* continuation URL U and continuation parameters K, issues its request
\* against exactly U (nothing from the default origin, U used as the
\* request's address as supplied) with every entry of K in the query string
\* together with the new caller parameters.
C3_AsStated ==
  \A v \in Variants :
    (IsFollowup /\ Finished(v)) =>
      \A n \in DOMAIN Out(v).requests :
        /\ AddressOf(Out(v).requests[n]) = FollowupU
        /\ CarriesFollowupState(Out(v).requests[n])

\* C3 amended: conversational-followup uses U as the base of the request's
\* address in place of the default origin, not as the address itself: the
\* blocking method, when its keyword arguments do not collide, issues one
\* request to U followed by the version path and the endpoint path of the
\* conversational descriptor, with every entry of K in the query string
\* together with i and the new caller parameters; every request the
\* non-blocking method issues has the same form.
C3_FollowupBase ==
  /\ \A v \in Variants :
       (IsFollowup /\ Finished(v)) =>
         \A n \in DOMAIN Out(v).requests :
           /\ AddressOf(Out(v).requests[n]) =
                FollowupU \o VersionPath(call.api) \o call.api.ENDPOINT
           /\ ~StartsWith(Out(v).requests[n], "https://api.wolframalpha.com/")
           /\ CarriesFollowupState(Out(v).requests[n])
  /\ (IsFollowup /\ Finished("blocking") /\ FollowupCallable)
       => Len(sync.requests) = 1

C3_Witness ==
  /\ IsFollowup
  /\ sync.pc = "done"
  /\ sync.raised = ""
  /\ Len(sync.requests) = 1
  /\ FollowupU = "https://x/v1/conversation.jsp"
  /\ Len(FollowupK) = 2
  /\ Len(call.params) = 1

(***************************************************************************)
(* C4.                                                                     *)
(***************************************************************************)
RejectedDescriptor(o) == o.raised = "TypeError" /\ o.steps = <<"check">>

\* C4 as stated: the blocking and the non-blocking query, run side by side on
\* the same descriptor, the same caller parameters and equivalent responses,
\* both accept or both reject the descriptor, both build the same URL, and
\* both return structurally equal results or fail with the same kind of
\* error.
C4_VariantsAgree ==
  (call.method = "query" /\ Finished("blocking") /\ Finished("non-blocking"))
    => /\ RejectedDescriptor(sync) <=> RejectedDescriptor(async)
       /\ sync.url = async.url
       /\ sync.result = async.result
       /\ sync.raised = async.raised

(***************************************************************************)
(* C5.                                                                     *)
(***************************************************************************)
\* C5: passing an object that is not a recognized endpoint descriptor to the
\* low-level query (blocking or non-blocking) fails with a TypeError, and the
\* failure comes before the parameter merge, the URL build and any network
\* access: the check is the only step performed.
C5_TypeConflictFirst ==
  \A v \in Variants :
    (call.method = "query" /\ Finished(v) /\ ~RecognizedBy(v, call.api))
    => /\ Out(v).raised = "TypeError"
       /\ Out(v).steps = <<"check">>
       /\ Out(v).merged = <<>>
       /\ Out(v).url = ""
       /\ Out(v).requests = <<>>
       /\ Out(v).session = 0

C5_Witness ==
  /\ call.method = "query"
  /\ call.api = PlainObject
  /\ Len(call.params) = 2
  /\ sync.pc = "done" /\ sync.raised = "TypeError"
  /\ async.pc = "done" /\ async.raised = "TypeError"

(***************************************************************************)
(* C6.                                                                     *)
(***************************************************************************)
\* C6: for every valid endpoint descriptor with fixed parameters F and every
\* caller parameter set P disjoint from F, the merged parameter mapping of the
\* issued request has exactly |P|+|F|+1 entries (the credential, all of F,
\* all of P), no key occurs twice in it, and the query string of the request
\* has as many parts.
C6_MergedSize ==
  \A v \in Variants :
    (/\ call.method = "query"
     /\ Finished(v)
     /\ RecognizedBy(v, call.api)
     /\ KnownVersion(call.api)
     /\ ~SharesKey(call.params, call.api.PARAMS))
    => /\ \A n \in DOMAIN Out(v).requests :
            /\ Len(Out(v).merged) = Len(call.params) + Len(call.api.PARAMS) + 1
            /\ NoDup(KeyList(Out(v).merged))
            /\ Keys(Out(v).merged) =
                 {"appid"} \cup Keys(call.api.PARAMS) \cup Keys(call.params)
            /\ Len(QueryParts(Out(v).requests[n])) = Len(Out(v).merged)
            /\ NoDup(PartKeys(Out(v).requests[n]))
       /\ "appid" \notin Keys(call.params) \cup Keys(call.api.PARAMS)
            => Len(Out(v).requests) = 1

C6_Witness ==
  /\ call.method = "query"
  /\ call.api.kind = "APIClass"
  /\ Len(call.api.PARAMS) = 2
  /\ Len(call.params) = 1
  /\ ~SharesKey(call.params, call.api.PARAMS)
  /\ sync.pc = "done"
  /\ Len(sync.requests) = 1
  /\ Len(sync.merged) = 4

(***************************************************************************)
(* C7.                                                                     *)
(***************************************************************************)
\* C7: for every descriptor with a known version and every merged parameter
\* mapping, the URL requested is base URL + version path segment (1 -> "v1/",
\* 2 -> "v2/") + endpoint path + "?" + query string, where the base URL is the
\* override when one is given and the default origin otherwise, and the query
\* string lists the credential first, then the fixed parameters, then the
\* caller parameters, each in insertion order.  For version 1, path "simple",
\* no fixed parameters and i = "2+2" the URL is <origin>v1/simple?appid=<cred>&i=2%2B2.
C7_UrlShape ==
  /\ \A v \in Variants :
       (call.method = "query" /\ Finished(v)) =>
         \A n \in DOMAIN Out(v).requests :
           LET u == Out(v).requests[n]
               items == <<<<"appid", Str(call.appid)>>>> \o call.api.PARAMS \o call.params
           IN /\ KnownVersion(call.api)
              /\ AddressOf(u) =
                   (IF call.url = None THEN "https://api.wolframalpha.com/"
                    ELSE call.url.v)
                   \o VersionPath(call.api)
                   \o call.api.ENDPOINT
              /\ QueryParts(u) = [m \in 1..Len(items) |-> Part(items[m][1], items[m][2])]
              /\ u = AddressOf(u) \o "?" \o Join("&", QueryParts(u))
  /\ \A v \in Variants :
       (/\ call.method = "query"
        /\ Finished(v)
        /\ RecognizedBy(v, call.api)
        /\ call.api.VERSION = 1 /\ call.api.ENDPOINT = "simple" /\ call.api.PARAMS = <<>>
        /\ call.params = <<<<"i", Str("2+2")>>>>
        /\ call.url = None)
       => Out(v).requests =
            <<"https://api.wolframalpha.com/v1/simple?appid=DEMO-KEY&i=2%2B2">>

C7_Witness ==
  /\ call.method = "query"
  /\ call.url # None
  /\ call.api.kind = "APIClass"
  /\ call.api.VERSION = 2
  /\ Len(call.api.PARAMS) = 1
  /\ Len(call.params) = 2
  /\ sync.pc = "done"
  /\ sync.raised = ""
  /\ Len(sync.requests) = 1

(***************************************************************************)
(* C8.                                                                     *)
(***************************************************************************)
FormatGiven ==
  /\ call.method = "full_results_query"
  /\ HasKey(call.params, "format")
  /\ Get(call.params, "format").t = "list"

\* C8: for every full-results call whose format parameter is a sequence of
\* strings, the issued request carries exactly one format parameter whose
\* value is the elements joined with "," in their original order, never a
\* repeated format key, and all other caller parameters are passed through
\* unchanged; format = ["plaintext", "image"] gives format=plaintext%2Cimage.
C8_FormatJoined ==
  \A v \in Variants :
    (FormatGiven /\ Finished(v)) =>
      \A n \in DOMAIN Out(v).requests :
        LET parts == QueryParts(Out(v).requests[n])
            given == Get(call.params, "format").items
        IN /\ Cardinality({m \in DOMAIN parts : PartKey(parts[m]) = "format"}) = 1
           /\ ("format=" \o quote_plus(Join(",", given))) \in Range(parts)
           /\ given = <<"plaintext", "image">> => "format=plaintext%2Cimage" \in Range(parts)
           /\ given = <<"image">> => "format=image" \in Range(parts)
           /\ \A m \in DOMAIN call.params :
                call.params[m][1] \notin {"format", "url"}
                  => Part(call.params[m][1], call.params[m][2]) \in Range(parts)
           /\ Len(parts) = Len(call.params) + Len(call.api.PARAMS) + 2

C8_Witness ==
  /\ FormatGiven
  /\ Get(call.params, "format").items = <<"plaintext", "image">>
  /\ Len(call.params) = 2
  /\ sync.pc = "done"
  /\ sync.raised = ""
  /\ Len(sync.requests) = 1

(***************************************************************************)
(* C9.                                                                     *)
(***************************************************************************)
\* C9 as stated: for every descriptor whose declared API version is absent
\* from the version table {1, 2}, the low-level query (blocking and
\* non-blocking) fails with the ValueError the code names for an unknown
\* version and issues no network request.
C9_UnknownVersionValueError ==
  \A v \in Variants :
    (/\ call.method = "query"
     /\ Finished(v)
     /\ RecognizedBy(v, call.api)
     /\ ~KnownVersion(call.api))
    => (Out(v).raised = "ValueError" /\ Out(v).requests = <<>>)

(***************************************************************************)
(* C10.                                                                    *)
(***************************************************************************)
Tasks == 1..NTasks
Holding(c) == tasks[c].o.session # 0 /\ tasks[c].o.session \in open
InNetworkStep(c) == tasks[c].o.pc \in {"wait", "format", "close_session"}
Before(steps, a, b) ==
  \A n \in DOMAIN steps : steps[n] = b => \E m \in 1..(n - 1) : steps[m] = a

SessionSafety ==
  /\ \A c \in Tasks : InNetworkStep(c) => Holding(c)
  /\ \A c \in Tasks : tasks[c].o.requests # <<>> => tasks[c].o.session # 0
  /\ \A c, d \in Tasks :
       (c # d /\ tasks[c].o.session # 0) => tasks[c].o.session # tasks[d].o.session
  /\ \A c \in Tasks :
       tasks[c].o.pc = "format" => (tasks[c].o.resp = "open" /\ Holding(c))
  /\ \A c \in Tasks :
       /\ Before(tasks[c].o.steps, "open_session", "get")
       /\ Before(tasks[c].o.steps, "get", "format")
       /\ Before(tasks[c].o.steps, "format", "release")
       /\ Before(tasks[c].o.steps, "open_session", "close_session")
       /\ tasks[c].o.resp = "released" => Before(tasks[c].o.steps, "release", "close_session")
  /\ \A c \in Tasks : tasks[c].o.pc = "done" => ~Holding(c)
  /\ (\A c \in Tasks : tasks[c].o.pc = "done") => open = {}

\* C10: in the non-blocking variant every call that reaches the network step
\* acquires its own fresh session, and under any interleaving of concurrent
\* calls that session is eventually released whether the request succeeds,
\* the request fails or the formatter fails; the formatter runs while the
\* session and the response are still open, and no session remains open once
\* all calls have finished.
C10_SessionReleased ==
  /\ []SessionSafety
  /\ \A c \in Tasks : Holding(c) ~> (tasks[c].o.pc = "done" /\ ~Holding(c))

C10_Witness ==
  /\ \A c \in Tasks : tasks[c].o.pc = "done"
  /\ open = {}
  /\ \E c \in Tasks : tasks[c].o.raised = "FormatFailure" /\ tasks[c].o.session # 0
  /\ \E c \in Tasks : tasks[c].o.raised = "TransportFailure" /\ tasks[c].o.session # 0

====
